---- MODULE Spec2Model ----
(***************************************************************************)
(* Playback clock and beat detector of the audio visualizer                *)
(* (audioProcessor.js), the mode switching of visualizers.js with the      *)
(* scene of threeManager.js, and the handlers of main.js that drive them.  *)
(* The audio clock (audioContext.currentTime) is counted in units of       *)
(* 0.1 s, so the natural-end tolerance of 0.1 s is one unit; the wall      *)
(* clock (performance.now()) is counted in ms.                             *)
(***************************************************************************)
EXTENDS Integers, Sequences, FiniteSets, TLC

\* ---------------------------------------------------------------- bounds
MaxClock  == 5     \* the audio clock is followed up to this instant
MaxNodes  == 2     \* source nodes that may be alive at the same time
MaxTimers == 1     \* deferred restarts (setTimeout of handleSeek) in flight
MaxLoads  == 1     \* file loads (FileReader + decodeAudioData) in flight
MaxCycles == 2     \* pause/resume cycles that are counted (saturating)

MaxDuration == 3   \* longest track, in clock units

MaxNow    == 5     \* the wall clock is followed for this many steps
MaxBins   == 10    \* analyser.frequencyBinCount (fftSize / 2 in the code)
beatHistorySize == 2   \* capacity of energyHistory (60 in the code)
MaxCopies == 2    \* what one init of a mode adds to the scene is followed
                  \* up to this many times over

\* ------------------------------------------------------------- constants
NaturalEndEps == 1                              \* 0.1 s, in clock units
Durations     == {MaxDuration - 1, MaxDuration} \* the decodable files
Offsets       == -1 .. (MaxDuration + 1)        \* numeric arguments tried

\* beat detection: beatThreshold = 1.3 in hundredths, beatCooldown in ms
beatThresholdPct == 130
beatCooldown     == 150
NowStep          == 150     \* ms between two readings of performance.now()
MaxLevel         == 255     \* largest value of a Uint8Array bin
FallbackLength   == 256     \* createDefaultFeatures: validBufferLength
SnowflakeTypes   == 5       \* snowflakeVisualizer: parameters.length

\* progress-bar positions tried on a track of duration d: a point inside
\* and the right end
SeekTargets(d) == {1, d}

VARIABLES
    audioBuffer,       \* 0: no buffer, otherwise the buffer's duration
    isPlaying,
    startTime,
    startedAt,
    sourceNode,        \* the node the module refers to, NoNode: null
    stale,             \* the other started nodes that can still fire
                       \* onended: their end instants, in ascending order
    clock,             \* audioContext.currentTime
    timers,            \* seek targets of the pending restart timeouts
    loads,             \* file loads in flight
    btnDisabled,       \* playPauseButton.disabled
    animationFrameId,  \* main.js: FALSE is null
    rafPending,        \* animate callbacks waiting for the next frame
    shown,             \* audioCurrentTime, the local of the animate() frame
                       \* that ran in the last step (-1: none ran)
    ret,               \* what the audioProcessor call of the last step
                       \* returned ("none": no call was made)
    dirty,             \* history: a seek, reset or reload has happened
    firstOffset,       \* history: offset of the first play, -1 before it
    played,            \* history: clock time spent playing
    cycles,            \* history: resumes after a pause (saturating)
    ended,             \* history: the track has reached its end
    seekRec,           \* history: the seek made while playing, if any
    now,               \* performance.now(), in ms
    lastFrameTime,     \* audioProcessor.js: lastFrameTime
    timeSinceLastBeat,
    energyHistory,     \* energies, each multiplied by bufferLength
    bufferLength,      \* analyser.frequencyBinCount
    analyser,          \* the byte frequency data the analyser node holds
    features,          \* the record calculateAudioFeatures or
                       \* createDefaultFeatures returned in the last step
    beatTimes,         \* history: wall clock of the last two beats
    audioReady,        \* initAudio has created the context, the analyser
                       \* and its two arrays; a buffer can be decoded only
                       \* by the context, so a loaded buffer implies it
    endReport,         \* what the onended callback of the last step passed
                       \* to onEnded ("none": no callback ran)
    lastSeek,          \* history: the target of the latest handleSeek while
                       \* a restart is pending, -1 otherwise
    currentVisMode,    \* visualizers.js
    visElements,       \* visualizers.js: the keys of visElements
    scene,             \* threeManager.js: how many objects of each kind
                       \* the visualizers have in scene.children
    inited,            \* the modes whose visualizer module holds the
                       \* objects its init function made (null / [] if not)
    visRet             \* what switchVisualMode or updateVisualization
                       \* returned in the last step ("none": not called)

vars == <<audioBuffer, isPlaying, startTime, startedAt, sourceNode, stale,
          clock, timers, loads, btnDisabled, animationFrameId, rafPending,
          shown, ret, dirty, firstOffset, played, cycles, ended,
          seekRec, now, lastFrameTime, timeSinceLastBeat, energyHistory,
          bufferLength, analyser, features, beatTimes, audioReady,
          endReport, lastSeek, currentVisMode, visElements, scene,
          inited, visRet>>

audioVars == <<audioBuffer, isPlaying, startTime, startedAt, sourceNode,
               stale>>

\* what no function but initAudio writes: the wall clock, the analyser's
\* size, the data it holds and whether it exists
envVars == <<now, bufferLength, analyser, audioReady>>

\* the state of visualizers.js, of the scene and of the visualizer modules
visVars == <<currentVisMode, visElements, scene, inited>>

\* the beat detector's state
beatVars == <<lastFrameTime, timeSinceLastBeat, energyHistory, beatTimes>>

\* --------------------------------------------------------------- helpers
Min(a, b) == IF a < b THEN a ELSE b
Max(a, b) == IF a > b THEN a ELSE b

\* Math.max(0, Math.min(x, duration))
Clamp(x, duration) == Max(0, Min(x, duration))

\* a node is "idle" once created with onended attached, "live" once
\* start() has succeeded; endAt is the instant its buffer runs out
NoNode   == [st |-> "null", endAt |-> 0]
\* base: the seek target minus the clock at the seek
NoSeek   == [on |-> FALSE, base |-> 0]

\* instant at which a node started now at `offset` has rendered the
\* buffer to its end
EndOf(offset) == clock + audioBuffer - offset

\* s with e added, ascending
Insert(s, e) ==
    LET k == Cardinality({i \in DOMAIN s : s[i] <= e})
    IN  SubSeq(s, 1, k) \o <<e>> \o SubSeq(s, k + 1, Len(s))

\* s without its i-th element
Remove(s, i) == SubSeq(s, 1, i - 1) \o SubSeq(s, i + 1, Len(s))

\* the module drops its reference to the node without stopping it and
\* without detaching onended (disconnect(), sourceNode = null): a started
\* node keeps running and still fires onended; a node that was never
\* started cannot fire and is gone
Dropped(node, ns) == IF node.st = "live" THEN Insert(ns, node.endAt) ELSE ns

GetCurrentTimeAlwaysRunning == clock - startedAt + startTime

\* getCurrentTime()
GetCurrentTime ==
    IF audioBuffer = 0 \/ ~isPlaying THEN startTime
    ELSE clock - startedAt + startTime

\* getDuration()
GetDuration == audioBuffer

ValidOffsetNoUpperBound(offset) == Max(0, offset)

\* Math.max(0, Math.min(offset, audioBuffer.duration)) of startPlayback
ValidOffset(offset) == Clamp(offset, audioBuffer)

StopStartTimeNoSnapshot == startTime

StopStartTimeAccumulating ==
    IF isPlaying /\ clock > 0 THEN startTime + GetCurrentTime ELSE startTime

\* the offset stopPlayback stores: the position is snapshotted while
\* isPlaying is still set and the node still runs
StopStartTime ==
    IF isPlaying /\ clock > 0 THEN GetCurrentTime ELSE startTime

SeekStartTimeNoUpperBound(time) == Max(0, time)

\* the value setStartTime stores for a numeric argument
SeekStartTime(time) == Clamp(time, audioBuffer)

NaturallyEndedWhilePaused ==
    clock - startedAt + startTime >= audioBuffer - NaturalEndEps

\* naturallyEnded of the onended closure; && short-circuits, so the
\* duration is read only while isPlaying
NaturallyEnded ==
    isPlaying /\ (clock - startedAt + startTime >= audioBuffer - NaturalEndEps)

\* ------------------------------------------------------ audio features
\* new Uint8Array(n)
Zeros(n) == [i \in 1..n |-> 0]

\* Math.floor(bufferLength * 0.1) and Math.floor(bufferLength * 0.5)
BassEnd(n) == n \div 10
MidEnd(n)  == n \div 2

\* the accumulation loop, lines 228-240, over the bins a+1 .. b
RECURSIVE SumBins(_, _, _)
SumBins(bins, a, b) ==
    IF a >= b THEN 0 ELSE bins[b] + SumBins(bins, a, b - 1)

RECURSIVE SumSquares(_, _)
SumSquares(bins, b) ==
    IF b = 0 THEN 0 ELSE bins[b] * bins[b] + SumSquares(bins, b - 1)

RECURSIVE SumSeq(_)
SumSeq(h) == IF h = <<>> THEN 0 ELSE Head(h) + SumSeq(Tail(h))

ValidRangeNoGuard(n) == n

\* the guards against a division by zero, lines 243-245
ValidRange(n) == IF n > 0 THEN n ELSE 1

BandAverageShortCount(bins, a, b) ==
    [sum |-> SumBins(bins, a, b), count |-> ValidRange(b - a - 1)]

\* a band average before normalization, kept as the fraction sum / count
BandAverage(bins, a, b) ==
    [sum |-> SumBins(bins, a, b), count |-> ValidRange(b - a)]

\* Math.pow(average / 255, 0.8) in hundredths: followed at the two
\* averages where it is exact, silence and full scale
NormalizedPct(band) ==
    CASE band.sum = 0 -> 0
      [] band.sum = MaxLevel * band.count -> 100

\* currentEnergy, multiplied by bufferLength
CurrentEnergy(bins) == SumSquares(bins, Len(bins))

DynamicThresholdFixed(bassPct) == beatThresholdPct

\* beatThreshold * (0.8 + normalizedBass * 0.5), in hundredths
DynamicThreshold(bassPct) ==
    (beatThresholdPct * (80 + (50 * bassPct) \div 100)) \div 100

EnergySpikeMinusEpsilon(energy, history, bassPct) ==
    100 * Len(history) * energy - SumSeq(history) * DynamicThreshold(bassPct)
        > 0 - ((Len(history) * bufferLength + 99) \div 100)

EnergySpikeAtBoundary(energy, history, bassPct) ==
    100 * Len(history) * energy - SumSeq(history) * DynamicThreshold(bassPct)
        >= (Len(history) * bufferLength) \div 100

\* currentEnergy > avgEnergy * dynamicThreshold + 1e-4 of line 275, with
\* both sides multiplied by 100 * energyHistory.length * bufferLength
EnergySpike(energy, history, bassPct) ==
    100 * Len(history) * energy - SumSeq(history) * DynamicThreshold(bassPct)
        > (Len(history) * bufferLength) \div 100

BeatFiresWithoutCooldown(energy, history, bassPct, sinceBeat) ==
    /\ Len(history) > 0
    /\ EnergySpike(energy, history, bassPct)

\* the condition of lines 268-275
BeatFires(energy, history, bassPct, sinceBeat) ==
    /\ Len(history) > 0
    /\ EnergySpike(energy, history, bassPct)
    /\ sinceBeat > beatCooldown

PushedNoEviction(history, energy) == Append(history, energy)

\* energyHistory.push, and shift beyond beatHistorySize: lines 283-286
Pushed(history, energy) ==
    LET h == Append(history, energy)
    IN  IF Len(h) > beatHistorySize THEN Tail(h) ELSE h

\* the last two entries of a sequence
LastTwo(s) == IF Len(s) > 2 THEN Tail(s) ELSE s

NoFeatures == [kind |-> "none"]

\* createDefaultFeatures, lines 299-312; fftSize / 2 is the size of the
\* analyser initAudio makes, MaxBins; rawLength is the length of the two
\* raw arrays of the record
DefaultFeatures ==
    LET zero == [sum |-> 0, count |-> 1]
        length == IF audioReady THEN bufferLength ELSE MaxBins
    IN  [kind |-> "default", volume |-> zero, bass |-> zero, mid |-> zero,
         treble |-> zero, isBeat |-> FALSE,
         rawLength |-> IF length > 0 THEN length ELSE FallbackLength]

\* the state of the beat detector when the module is loaded, lines 17-19
InitBeat ==
    /\ now = NowStep
    /\ lastFrameTime = now
    /\ timeSinceLastBeat = 0
    /\ energyHistory = <<>>
    /\ features = NoFeatures
    /\ beatTimes = <<>>

\* ------------------------------------------------------- visualization
\* the options of visModeSelect, index.html lines 39-44
Modes == {"spheresAndParticles", "frequencyBars", "waveform", "snowflakes",
          "billboards", "lines"}

\* the objects the init functions add to the scene, named after the
\* variables that hold them
Kinds == {"particles", "bars", "line", "activeParticles",
          "backgroundParticles", "billboardParticles", "billboardParticles2"}

\* the state of the visualization as one record
Vis == [mode |-> currentVisMode, elements |-> visElements, scene |-> scene,
        inited |-> inited]

SetVis(v) ==
    /\ currentVisMode' = v.mode
    /\ visElements' = v.elements
    /\ scene' = v.scene
    /\ inited' = v.inited

\* what the init function of a mode adds to the scene (addToScene), as
\* called by initVisualsForMode; a mode without a case adds nothing
Created(mode) ==
    [k \in Kinds |->
        CASE mode = "spheresAndParticles" /\ k = "particles" -> 1
          [] mode = "frequencyBars" /\ k = "bars" -> 1
          [] mode = "waveform" /\ k = "line" -> 1
          [] mode = "snowflakes" /\ k = "activeParticles" -> SnowflakeTypes
          [] mode = "snowflakes" /\ k = "backgroundParticles"
               -> SnowflakeTypes
          [] mode = "billboards" /\ k = "billboardParticles" -> 1
          [] mode = "billboards" /\ k = "billboardParticles2" -> 1
          [] OTHER -> 0]

\* the key of visElements initVisualsForMode assigns for a mode
KeyOf(mode) ==
    CASE mode = "spheresAndParticles" -> {"particles"}
      [] mode = "frequencyBars" -> {"frequencyBars"}
      [] mode = "waveform" -> {"waveformLine"}
      [] mode = "snowflakes" -> {"snowflakes"}
      [] mode = "billboards" -> {"billboards"}
      [] OTHER -> {}

\* the scene object a key of visElements refers to: what the init
\* function returned.  initSnowflakes returns a record of arrays, which is
\* no scene object, initBillboards returns the first of its two systems
Referent(key) ==
    CASE key = "particles" -> {"particles"}
      [] key = "frequencyBars" -> {"bars"}
      [] key = "waveformLine" -> {"line"}
      [] key = "billboards" -> {"billboardParticles"}
      [] OTHER -> {}

\* the modes the switch statements of visualizers.js have a case for
Handled == {m \in Modes : KeyOf(m) # {}}

\* cleanupVisuals: disposeObject removes each referenced object from the
\* scene, the cleanup function of the current mode clears that module's
\* variables, visElements = {}
CleanupVisuals(v) ==
    [v EXCEPT
       !.scene = [k \in Kinds |->
                    IF \E key \in v.elements : k \in Referent(key)
                    THEN v.scene[k] - 1 ELSE v.scene[k]],
       !.inited = v.inited \ (Handled \cap {v.mode}),
       !.elements = {}]

\* initVisualsForMode
InitVisualsForMode(v, mode) ==
    [v EXCEPT
       !.elements = @ \cup KeyOf(mode),
       !.scene = [k \in Kinds |-> v.scene[k] + Created(mode)[k]],
       !.inited = @ \cup (Handled \cap {mode})]

\* the scene can take what the init function of the mode adds
CanInit(v, mode) ==
    \A k \in Kinds :
        Created(mode)[k] > 0 => v.scene[k] < MaxCopies * Created(mode)[k]

\* switchVisualMode returns false and does nothing
SameMode(v, newMode) == newMode = v.mode /\ v.elements # {}

\* switchVisualMode
SwitchVisualMode(v, newMode) ==
    IF SameMode(v, newMode) THEN v
    ELSE InitVisualsForMode([CleanupVisuals(v) EXCEPT !.mode = newMode],
                            newMode)

\* updateVisualization for a non-null feature record: the update function
\* of the current mode runs, and returns true, when the key of the mode
\* is set and the module holds its objects; updateSnowflakes is called
\* without looking at visElements
UpdateVisualization(v) ==
    CASE v.mode = "snowflakes" -> "snowflakes" \in v.inited
      [] v.mode \in Handled \ {"snowflakes"}
           -> KeyOf(v.mode) \subseteq v.elements /\ v.mode \in v.inited
      [] OTHER -> FALSE

Returned(b) == IF b THEN "true" ELSE "false"

\* the state of the visualization when the modules are loaded, and of the
\* other variables after DOMContentLoaded
InitVisuals ==
    /\ currentVisMode = "spheresAndParticles"
    /\ visElements = {}
    /\ scene = [k \in Kinds |-> 0]
    /\ inited = {}
    /\ visRet = "none"
    /\ endReport = "none"
    /\ lastSeek = -1

\* ------------------------------------------------------------------ Init
Init ==
    /\ audioBuffer = 0
    /\ isPlaying = FALSE
    /\ startTime = 0
    /\ startedAt = 0
    /\ sourceNode = NoNode
    /\ stale = <<>>
    /\ clock = 0
    /\ timers = <<>>
    /\ loads = 0
    /\ btnDisabled = TRUE
    /\ animationFrameId = FALSE
    /\ rafPending = 0
    /\ shown = -1
    /\ ret = "none"
    /\ dirty = FALSE
    /\ firstOffset = -1
    /\ played = 0
    /\ cycles = 0
    /\ ended = FALSE
    /\ seekRec = NoSeek
    /\ InitBeat
    /\ InitVisuals
    /\ audioReady = TRUE
    /\ bufferLength = MaxBins
    /\ analyser = Zeros(MaxBins)

\* ------------------------------------------------------- history helpers
\* the track has reached its end: the playing position is at the duration
TrackEnded == ended \/ (isPlaying' /\ GetCurrentTime' >= audioBuffer')

\* history is kept only while it is needed (no seek so far, and the
\* play-time bookkeeping only before the end of the track)
SetHist(d, f, p, c, e) ==
    /\ dirty' = d
    /\ firstOffset' = (IF d THEN -1 ELSE f)
    /\ played' = (IF d \/ e THEN 0 ELSE p)
    /\ cycles' = (IF d \/ e THEN 0 ELSE c)
    /\ ended' = (IF d THEN FALSE ELSE e)

HistSame == SetHist(dirty, firstOffset, played, cycles, TrackEnded)
HistDirty == SetHist(TRUE, -1, 0, 0, FALSE)

\* a start from `offset`: a restart while playing, or a start from
\* another offset than the current one, moves the position like a seek
HistStart(offset) ==
    SetHist(dirty \/ isPlaying
                  \/ (firstOffset # -1 /\ offset # GetCurrentTime),
            IF firstOffset = -1 THEN ValidOffset(offset) ELSE firstOffset,
            played, cycles, TrackEnded)

HistStop ==
    SetHist(dirty, firstOffset, played,
            IF isPlaying THEN Min(cycles + 1, MaxCycles) ELSE cycles,
            TrackEnded)

\* a new buffer before anything was played leaves the history clean
HistLoad == IF firstOffset = -1 /\ ~dirty THEN HistSame ELSE HistDirty

\* ---------------------------------------------- audioProcessor functions
\* startPlayback, lines 52-109: the node is replaced, startTime and
\* startedAt are written, and only then start() is tried
StartEffect(offset, ok) ==
    LET v == ValidOffset(offset)
    IN  /\ stale' = Dropped(sourceNode, stale)
        /\ startTime' = v
        /\ startedAt' = clock
        /\ sourceNode' = (IF ok THEN [st |-> "live", endAt |-> EndOf(v)]
                          ELSE [st |-> "idle", endAt |-> 0])
        /\ isPlaying' = (ok \/ isPlaying)
        /\ btnDisabled' = (IF ok THEN FALSE ELSE btnDisabled)
        /\ ret' = (IF ok THEN "true" ELSE "false")
        /\ UNCHANGED audioBuffer

StartBodyNoBufferCheck(offset, ok) == StartEffect(offset, ok)

\* startPlayback, lines 43-110
StartBody(offset, ok) ==
    IF audioBuffer = 0
    THEN /\ ret' = "false"
         /\ UNCHANGED <<audioVars, btnDisabled>>
    ELSE StartEffect(offset, ok)

CanStart == audioBuffer = 0 \/ Len(Dropped(sourceNode, stale)) < MaxNodes

\* stopPlayback, lines 149-170
StopBody ==
    /\ startTime' = StopStartTime
    /\ sourceNode' = NoNode
    /\ isPlaying' = FALSE
    /\ ret' = "undefined"
    /\ UNCHANGED <<audioBuffer, startedAt, stale>>

\* setStartTime, lines 173-195
SetStartTimeBody(time, isNum) ==
    /\ IF audioBuffer = 0 \/ ~isNum
       THEN ret' = "false" /\ UNCHANGED startTime
       ELSE ret' = "true" /\ startTime' = SeekStartTime(time)
    /\ UNCHANGED <<audioBuffer, isPlaying, startedAt, sourceNode, stale>>

ReturnsDefaultNoCatch(readOk) == ~audioReady \/ bufferLength <= 0

\* the early returns of calculateAudioFeatures, lines 200-202, 205-211 and
\* 224; readOk: getByteFrequencyData and getByteTimeDomainData return
ReturnsDefault(readOk) == ~audioReady \/ ~readOk \/ bufferLength <= 0

\* calculateAudioFeatures, lines 198-297, on the data the analyser holds
CalcBodyRead(readOk) ==
    IF ReturnsDefault(readOk)
    THEN features' = DefaultFeatures /\ UNCHANGED beatVars
    ELSE
    LET bins == analyser
        n == bufferLength
        bass == BandAverage(bins, 0, BassEnd(n))
        energy == CurrentEnergy(bins)
        validLastFrameTime ==
            IF lastFrameTime > 0 THEN lastFrameTime ELSE now - 17
        sinceBeat == timeSinceLastBeat + (now - validLastFrameTime)
        isBeat == BeatFires(energy, energyHistory, NormalizedPct(bass),
                            sinceBeat)
    IN  /\ timeSinceLastBeat' = (IF isBeat THEN 0 ELSE sinceBeat)
        /\ lastFrameTime' = now
        /\ energyHistory' = Pushed(energyHistory, energy)
        /\ beatTimes' = (IF isBeat THEN LastTwo(Append(beatTimes, now))
                         ELSE beatTimes)
        /\ features' =
             [kind |-> "computed",
              volume |-> BandAverage(bins, 0, n),
              bass |-> bass,
              mid |-> BandAverage(bins, BassEnd(n), MidEnd(n)),
              treble |-> BandAverage(bins, MidEnd(n), n),
              isBeat |-> isBeat,
              rawLength |-> n]

\* calculateAudioFeatures in a frame: the two reads are given arrays of
\* the analyser's size, which they fill without raising
CalcBody == CalcBodyRead(TRUE)

\* createDefaultFeatures as a call
DefaultBody == features' = DefaultFeatures

\* updateLastFrameTime, lines 339-345
UpdateBody(currentTime) ==
    lastFrameTime' = (IF currentTime # 0 THEN currentTime ELSE now)

FrameFeaturesAlwaysSampling(playing) == CalcBody

\* the features branch of animate(), main.js lines 231-242
FrameFeatures(playing) ==
    IF playing
    THEN CalcBody
    ELSE /\ DefaultBody
         /\ UpdateBody(now)
         /\ UNCHANGED <<timeSinceLastBeat, energyHistory, beatTimes>>

noFeatures == features' = NoFeatures /\ UNCHANGED beatVars

AnimateUnguarded ==
    /\ UNCHANGED envVars
    /\ animationFrameId' = TRUE
    /\ rafPending' = rafPending + 1
    /\ shown' = GetCurrentTime'
    /\ FrameFeatures(isPlaying')
    /\ visRet' = Returned(UpdateVisualization(Vis'))

\* animate() called from a handler when no loop runs yet (main.js 58-61,
\* 105-108, 185-188): the first frame runs synchronously, on the state
\* the handler has left
AnimateIfNeeded ==
    /\ UNCHANGED envVars
    /\ IF ~animationFrameId
       THEN /\ animationFrameId' = TRUE
            /\ rafPending' = rafPending + 1
            /\ shown' = GetCurrentTime'
            /\ FrameFeatures(isPlaying')
            /\ visRet' = Returned(UpdateVisualization(Vis'))
       ELSE /\ shown' = -1
            /\ UNCHANGED <<animationFrameId, rafPending>>
            /\ noFeatures
            /\ visRet' = "none"

uiSame ==
    /\ shown' = -1
    /\ UNCHANGED <<animationFrameId, rafPending>>
    /\ UNCHANGED envVars
    /\ noFeatures
    /\ visRet' = "none"
    /\ UNCHANGED visVars
noCall == ret' = "none"
\* no onended callback runs, and no seek is made
noReport == endReport' = "none" /\ UNCHANGED lastSeek

\* ---------------------------------------------------------------- actions
\* the audio clock advances by one unit
AdvanceClock ==
    /\ clock < MaxClock
    /\ clock' = clock + 1
    /\ UNCHANGED <<audioVars, timers, loads, btnDisabled, seekRec>>
    /\ noCall
    /\ uiSame
    /\ noReport
    /\ SetHist(dirty, firstOffset,
               IF isPlaying THEN played + 1 ELSE played, cycles, TrackEnded)

\* startPlayback(offset, onEnded, uiControls) called directly
StartPlayback(offset, ok) ==
    /\ CanStart
    /\ StartBody(offset, ok)
    /\ seekRec' = NoSeek
    /\ UNCHANGED <<clock, timers, loads>>
    /\ uiSame
    /\ noReport
    /\ IF audioBuffer = 0 THEN HistSame ELSE HistStart(offset)

\* stopPlayback() called directly
StopPlayback ==
    /\ StopBody
    /\ seekRec' = NoSeek
    /\ UNCHANGED <<clock, timers, loads, btnDisabled>>
    /\ uiSame
    /\ noReport
    /\ HistStop

\* setStartTime(time) called directly; isNum = FALSE stands for NaN and for
\* strings parseFloat cannot read
SetStartTime(time, isNum) ==
    /\ SetStartTimeBody(time, isNum)
    /\ seekRec' = NoSeek
    /\ UNCHANGED <<clock, timers, loads, btnDisabled>>
    /\ uiSame
    /\ noReport
    /\ IF audioBuffer = 0 \/ ~isNum THEN HistSame ELSE HistDirty

\* resetAudio(), lines 315-324
ResetAudio ==
    /\ stale' = Dropped(sourceNode, stale)
    /\ sourceNode' = NoNode
    /\ audioBuffer' = 0
    /\ isPlaying' = FALSE
    /\ startTime' = 0
    /\ startedAt' = 0
    /\ seekRec' = NoSeek
    /\ UNCHANGED <<clock, timers, loads, btnDisabled>>
    /\ noCall
    /\ uiSame
    /\ noReport
    /\ HistDirty

\* sourceNode.onended, lines 71-89, of the current node (n = 0) or of the
\* n-th stale node: dispatched some time after the node has rendered its
\* last sample
OnEnded(n) ==
    /\ IF n = 0
       THEN /\ sourceNode.st = "live"
            /\ clock >= sourceNode.endAt
            /\ UNCHANGED stale
       ELSE /\ n \in DOMAIN stale
            /\ clock >= stale[n]
            /\ stale' = Dropped(sourceNode, Remove(stale, n))
    /\ isPlaying' = FALSE
    /\ btnDisabled' = (IF audioBuffer # 0 THEN FALSE ELSE btnDisabled)
    /\ startTime' = (IF NaturallyEnded THEN 0 ELSE startTime)
    /\ sourceNode' = NoNode
    /\ endReport' = (IF NaturallyEnded THEN "natural" ELSE "stopped")
    /\ seekRec' = NoSeek
    /\ UNCHANGED <<audioBuffer, startedAt, clock, timers, loads, lastSeek>>
    /\ noCall
    /\ uiSame
    /\ HistSame

\* loadAudioFile(file) called without callbacks, decoding succeeds with a
\* buffer of duration d: lines 113-125
Decoded(d) ==
    /\ audioBuffer' = d
    /\ UNCHANGED <<isPlaying, startTime, startedAt, sourceNode, stale>>
    /\ UNCHANGED <<clock, timers, loads, btnDisabled>>
    /\ noCall
    /\ uiSame
    /\ seekRec' = NoSeek
    /\ noReport
    /\ HistLoad

\* handlePlayPause, main.js lines 72-111 (a click on the enabled button)
HandlePlayPause(ok) ==
    /\ ~btnDisabled
    /\ CanStart
    /\ UNCHANGED <<clock, timers, loads>>
    /\ IF audioBuffer = 0
       THEN /\ UNCHANGED <<audioVars, btnDisabled>>
            /\ noCall
            /\ uiSame
            /\ HistSame
       ELSE IF isPlaying
       THEN /\ StopBody
            /\ UNCHANGED btnDisabled
            /\ uiSame
            /\ HistStop
       ELSE /\ StartBody(GetCurrentTime, ok)
            /\ IF ok THEN UNCHANGED visVars /\ AnimateIfNeeded ELSE uiSame
            /\ HistStart(GetCurrentTime)
    /\ seekRec' = NoSeek
    /\ noReport

\* handleSeek, main.js lines 126-189: a press on the progress bar at the
\* position of offset t = seekRatio * duration
HandleSeek(t) ==
    /\ audioBuffer # 0
    /\ t \in SeekTargets(audioBuffer)
    /\ UNCHANGED <<clock, loads, btnDisabled>>
    /\ IF isPlaying
       THEN /\ Len(timers) < MaxTimers
            /\ StopBody
            /\ timers' = Append(timers, t)
            /\ seekRec' = [on |-> TRUE, base |-> t - clock]
       ELSE /\ SetStartTimeBody(t, TRUE)
            /\ UNCHANGED timers
            /\ seekRec' = NoSeek
    /\ lastSeek' = (IF timers' # <<>> THEN t ELSE -1)
    /\ endReport' = "none"
    /\ UNCHANGED visVars
    /\ AnimateIfNeeded
    /\ HistDirty

\* the setTimeout(..., 10) callback of handleSeek, main.js lines 162-171
RestartTimer(ok) ==
    /\ timers # <<>>
    /\ CanStart
    /\ StartBody(Head(timers), ok)
    /\ timers' = Tail(timers)
    /\ lastSeek' = (IF timers' # <<>> THEN lastSeek ELSE -1)
    /\ endReport' = "none"
    /\ UNCHANGED <<clock, loads, seekRec>>
    /\ uiSame
    /\ HistDirty

\* handleFileSelect, main.js lines 32-69, up to the start of the read
HandleFileSelect(hasFile) ==
    /\ UNCHANGED <<clock, timers>>
    /\ IF ~hasFile
       THEN /\ UNCHANGED <<audioVars, loads>>
            /\ noCall
            /\ HistSame
       ELSE /\ loads < MaxLoads
            /\ IF isPlaying
               THEN StopBody /\ HistStop
               ELSE UNCHANGED audioVars /\ noCall /\ HistSame
            /\ loads' = loads + 1
    /\ btnDisabled' = TRUE
    /\ seekRec' = NoSeek
    /\ uiSame
    /\ noReport

\* decodeAudioData succeeds with a buffer of duration d: loadAudioFile
\* lines 122-125 and the success callback, main.js lines 51-62
LoadSuccess(d) ==
    /\ loads > 0
    /\ loads' = loads - 1
    /\ audioBuffer' = d
    /\ btnDisabled' = FALSE
    /\ UNCHANGED <<isPlaying, startTime, startedAt, sourceNode, stale>>
    /\ UNCHANGED <<clock, timers>>
    /\ noCall
    /\ noReport
    /\ CanInit(Vis, currentVisMode)
    /\ SetVis(InitVisualsForMode(Vis, currentVisMode))
    /\ AnimateIfNeeded
    /\ seekRec' = NoSeek
    /\ HistLoad

\* the read or the decoding fails: loadAudioFile lines 126-137 and the
\* error callback, main.js lines 64-67
LoadError ==
    /\ loads > 0
    /\ loads' = loads - 1
    /\ btnDisabled' = TRUE
    /\ seekRec' = NoSeek
    /\ UNCHANGED <<audioVars, clock, timers>>
    /\ noCall
    /\ uiSame
    /\ noReport
    /\ HistSame

\* one frame of animate(), main.js lines 202-249: the loop re-arms itself,
\* reads the playback position, gets the features and updates the
\* visualization
Tick ==
    /\ rafPending > 0
    /\ shown' = GetCurrentTime
    /\ FrameFeatures(isPlaying)
    /\ visRet' = Returned(UpdateVisualization(Vis))
    /\ UNCHANGED visVars
    /\ noReport
    /\ UNCHANGED <<audioVars, clock, timers, loads, btnDisabled,
                   animationFrameId, rafPending, seekRec>>
    /\ UNCHANGED envVars
    /\ noCall
    /\ HistSame

\* performance.now() has advanced
AdvanceNow ==
    /\ now < MaxNow * NowStep
    /\ now' = now + NowStep
    /\ UNCHANGED <<audioVars, clock, timers, loads, btnDisabled,
                   animationFrameId, rafPending, seekRec>>
    /\ UNCHANGED <<bufferLength, analyser, audioReady>>
    /\ visRet' = "none"
    /\ UNCHANGED visVars
    /\ noReport
    /\ shown' = -1
    /\ noFeatures
    /\ noCall
    /\ HistSame

\* the analyser node holds new frequency data
Analyse(bins) ==
    /\ Len(bins) = bufferLength
    /\ analyser' = bins
    /\ UNCHANGED <<audioVars, clock, timers, loads, btnDisabled,
                   animationFrameId, rafPending, seekRec>>
    /\ UNCHANGED <<now, bufferLength, audioReady>>
    /\ visRet' = "none"
    /\ UNCHANGED visVars
    /\ noReport
    /\ shown' = -1
    /\ noFeatures
    /\ noCall
    /\ HistSame

\* calculateAudioFeatures() called directly
CalculateAudioFeaturesRead(readOk) ==
    /\ CalcBodyRead(readOk)
    /\ UNCHANGED <<audioVars, clock, timers, loads, btnDisabled,
                   animationFrameId, rafPending, seekRec>>
    /\ UNCHANGED envVars
    /\ visRet' = "none"
    /\ UNCHANGED visVars
    /\ noReport
    /\ shown' = -1
    /\ noCall
    /\ HistSame

\* the call on an analyser whose reads return
CalculateAudioFeatures == CalculateAudioFeaturesRead(TRUE)

\* createDefaultFeatures() called directly
CreateDefaultFeatures ==
    /\ DefaultBody
    /\ UNCHANGED beatVars
    /\ UNCHANGED <<audioVars, clock, timers, loads, btnDisabled,
                   animationFrameId, rafPending, seekRec>>
    /\ UNCHANGED envVars
    /\ visRet' = "none"
    /\ UNCHANGED visVars
    /\ noReport
    /\ shown' = -1
    /\ noCall
    /\ HistSame

\* updateLastFrameTime(currentTime) called directly; 0 stands for a
\* missing argument
UpdateLastFrameTime(currentTime) ==
    /\ UpdateBody(currentTime)
    /\ features' = NoFeatures
    /\ UNCHANGED <<timeSinceLastBeat, energyHistory, beatTimes>>
    /\ UNCHANGED <<audioVars, clock, timers, loads, btnDisabled,
                   animationFrameId, rafPending, seekRec>>
    /\ UNCHANGED envVars
    /\ visRet' = "none"
    /\ UNCHANGED visVars
    /\ noReport
    /\ shown' = -1
    /\ noCall
    /\ HistSame

\* handleModeChange, main.js lines 192-194: switchVisualMode(newMode)
HandleModeChange(newMode) ==
    /\ SameMode(Vis, newMode) \/ CanInit(CleanupVisuals(Vis), newMode)
    /\ SetVis(SwitchVisualMode(Vis, newMode))
    /\ visRet' = Returned(~SameMode(Vis, newMode))
    /\ UNCHANGED <<audioVars, clock, timers, loads, btnDisabled,
                   animationFrameId, rafPending, seekRec>>
    /\ UNCHANGED envVars
    /\ noFeatures
    /\ noReport
    /\ shown' = -1
    /\ noCall
    /\ HistSame

\* the application in its default mode: the playback handlers of main.js,
\* the callbacks they register and the audio clock
Next ==
    \/ AdvanceClock
    \/ \E n \in 0..MaxNodes : OnEnded(n)
    \/ \E ok \in BOOLEAN : HandlePlayPause(ok)
    \/ \E t \in 0..MaxDuration : HandleSeek(t)
    \/ \E ok \in BOOLEAN : RestartTimer(ok)
    \/ \E f \in BOOLEAN : HandleFileSelect(f)
    \/ \E d \in Durations : LoadSuccess(d)
    \/ LoadError
    \/ Tick

Spec == Init /\ [][Next]_vars

\* the audioProcessor module on its own: its exported functions called in
\* any order with any argument
NextApi ==
    \/ AdvanceClock
    \/ \E n \in 0..MaxNodes : OnEnded(n)
    \/ \E d \in Durations : Decoded(d)
    \/ \E o \in Offsets, ok \in BOOLEAN : StartPlayback(o, ok)
    \/ StopPlayback
    \/ \E t \in Offsets, isNum \in BOOLEAN : SetStartTime(t, isNum)
    \/ ResetAudio

SpecApi == Init /\ [][NextApi]_vars

\* one track: the state after the first successful load, and the playback
\* operations and callbacks that act on it
InitTrack ==
    /\ audioBuffer \in Durations
    /\ isPlaying = FALSE
    /\ startTime = 0
    /\ startedAt = 0
    /\ sourceNode = NoNode
    /\ stale = <<>>
    /\ clock = 0
    /\ timers = <<>>
    /\ loads = 0
    /\ btnDisabled = TRUE
    /\ animationFrameId = FALSE
    /\ rafPending = 0
    /\ shown = -1
    /\ ret = "none"
    /\ dirty = FALSE
    /\ firstOffset = -1
    /\ played = 0
    /\ cycles = 0
    /\ ended = FALSE
    /\ seekRec = NoSeek
    /\ InitBeat
    /\ InitVisuals
    /\ audioReady = TRUE
    /\ bufferLength = MaxBins
    /\ analyser = Zeros(MaxBins)

NextTrack ==
    \/ AdvanceClock
    \/ \E n \in 0..MaxNodes : OnEnded(n)
    \/ \E o \in Offsets, ok \in BOOLEAN : StartPlayback(o, ok)
    \/ StopPlayback
    \/ \E t \in Offsets, isNum \in BOOLEAN : SetStartTime(t, isNum)

SpecTrack == InitTrack /\ [][NextTrack]_vars

\* frequency data of the analyser's size that begins with `head` and is
\* silent above it
Pad(head) == head \o Zeros(bufferLength - Len(head))

\* the snapshots fed to the beat detector: silence; three without bass
\* whose energies are in the ratio 100 : 104 : 130; two with a full-scale
\* bass bin
Silent  == Pad(<<>>)
Quiet   == Pad(<<0, 10>>)
Brink   == Pad(<<0, 10, 2>>)
Edge    == Pad(<<0, 11, 3>>)
Bass    == Pad(<<MaxLevel>>)
BassMid == Pad(<<MaxLevel, 200>>)
Snapshots == {Silent, Quiet, Brink, Edge, Bass, BassMid}
FrameSnapshots == {Quiet, Edge}

\* every array of n bins that are silent or at full scale
AllBins(n) == [1..n -> {0, MaxLevel}]

\* the analysis functions of audioProcessor on their own
NextFeatures ==
    \/ AdvanceNow
    \/ \E bins \in Snapshots : Analyse(bins)
    \/ CalculateAudioFeatures
    \/ CreateDefaultFeatures
    \/ \E t \in {0, now} : UpdateLastFrameTime(t)

SpecFeatures == Init /\ [][NextFeatures]_vars

\* the analysis of a track, and the track reset or replaced by another
NextReset ==
    \/ \E bins \in FrameSnapshots : Analyse(bins)
    \/ CalculateAudioFeatures
    \/ ResetAudio
    \/ \E d \in Durations : Decoded(d)

SpecReset == Init /\ [][NextReset]_vars

\* the state the success callback of the first load leaves, main.js lines
\* 51-62: the buffer is installed, the visuals of the default mode are
\* made and the first frame of the animation loop has run
InitLoaded ==
    /\ audioBuffer = MaxDuration
    /\ isPlaying = FALSE
    /\ startTime = 0
    /\ startedAt = 0
    /\ sourceNode = NoNode
    /\ stale = <<>>
    /\ clock = 0
    /\ timers = <<>>
    /\ loads = 0
    /\ btnDisabled = FALSE
    /\ animationFrameId = TRUE
    /\ rafPending = 1
    /\ shown = 0
    /\ ret = "none"
    /\ dirty = FALSE
    /\ firstOffset = -1
    /\ played = 0
    /\ cycles = 0
    /\ ended = FALSE
    /\ seekRec = NoSeek
    /\ now = NowStep
    /\ lastFrameTime = now
    /\ timeSinceLastBeat = 0
    /\ energyHistory = <<>>
    /\ beatTimes = <<>>
    /\ audioReady = TRUE
    /\ bufferLength = MaxBins
    /\ analyser = Zeros(MaxBins)
    /\ features = DefaultFeatures
    /\ currentVisMode = "spheresAndParticles"
    /\ visElements = {"particles"}
    /\ scene = Created("spheresAndParticles")
    /\ inited = {"spheresAndParticles"}
    /\ visRet = "true"
    /\ endReport = "none"
    /\ lastSeek = -1

\* the animation loop against the wall clock: frames, while a loaded
\* track is played, paused and seeked and the analyser's data changes
NextFrames ==
    \/ AdvanceNow
    \/ \E bins \in FrameSnapshots : Analyse(bins)
    \/ HandlePlayPause(TRUE)
    \/ HandleSeek(1)
    \/ RestartTimer(TRUE)
    \/ Tick

SpecFrames == InitLoaded /\ [][NextFrames]_vars

\* calculateAudioFeatures on every analyser size up to MaxBins and every
\* snapshot of silent and full-scale bins
InitBands ==
    /\ audioBuffer = 0
    /\ isPlaying = FALSE
    /\ startTime = 0
    /\ startedAt = 0
    /\ sourceNode = NoNode
    /\ stale = <<>>
    /\ clock = 0
    /\ timers = <<>>
    /\ loads = 0
    /\ btnDisabled = TRUE
    /\ animationFrameId = FALSE
    /\ rafPending = 0
    /\ shown = -1
    /\ ret = "none"
    /\ dirty = FALSE
    /\ firstOffset = -1
    /\ played = 0
    /\ cycles = 0
    /\ ended = FALSE
    /\ seekRec = NoSeek
    /\ InitBeat
    /\ InitVisuals
    /\ audioReady = TRUE
    /\ bufferLength \in 1..MaxBins
    /\ analyser \in AllBins(bufferLength)

NextBands ==
    \/ CalculateAudioFeatures
    \/ CreateDefaultFeatures

SpecBands == InitBands /\ [][NextBands]_vars

\* calculateAudioFeatures before initAudio has made an analyser, on an
\* analyser without bins, and on an analyser whose reads may raise
InitDegenerate ==
    /\ audioBuffer = 0
    /\ isPlaying = FALSE
    /\ startTime = 0
    /\ startedAt = 0
    /\ sourceNode = NoNode
    /\ stale = <<>>
    /\ clock = 0
    /\ timers = <<>>
    /\ loads = 0
    /\ btnDisabled = TRUE
    /\ animationFrameId = FALSE
    /\ rafPending = 0
    /\ shown = -1
    /\ ret = "none"
    /\ dirty = FALSE
    /\ firstOffset = -1
    /\ played = 0
    /\ cycles = 0
    /\ ended = FALSE
    /\ seekRec = NoSeek
    /\ InitBeat
    /\ InitVisuals
    /\ \/ audioReady = FALSE /\ bufferLength = 0
       \/ audioReady = TRUE /\ bufferLength \in {0, MaxBins}
    /\ analyser = Zeros(bufferLength)

NextDegenerate ==
    \/ AdvanceNow
    \/ \E bins \in FrameSnapshots : Analyse(bins)
    \/ \E readOk \in BOOLEAN : CalculateAudioFeaturesRead(readOk)

SpecDegenerate == InitDegenerate /\ [][NextDegenerate]_vars

\* a loaded track under the playback handlers of main.js: play/pause
\* presses, seeks, the deferred restarts and the completion callbacks
NextSeek ==
    \/ AdvanceClock
    \/ \E n \in 0..MaxNodes : OnEnded(n)
    \/ \E ok \in BOOLEAN : HandlePlayPause(ok)
    \/ \E t \in 0..MaxDuration : HandleSeek(t)
    \/ \E ok \in BOOLEAN : RestartTimer(ok)

SpecSeek == InitLoaded /\ [][NextSeek]_vars

\* the animation loop under the handlers that start it: file loads,
\* play/pause presses and seeks, at one instant of the audio clock
NextLoop ==
    \/ \E f \in BOOLEAN : HandleFileSelect(f)
    \/ \E d \in Durations : LoadSuccess(d)
    \/ LoadError
    \/ \E ok \in BOOLEAN : HandlePlayPause(ok)
    \/ \E t \in 0..MaxDuration : HandleSeek(t)
    \/ \E ok \in BOOLEAN : RestartTimer(ok)
    \/ Tick

SpecLoop == Init /\ [][NextLoop]_vars

\* the visualization: files are loaded, modes are chosen in visModeSelect
\* and frames run
NextVisuals ==
    \/ HandleFileSelect(TRUE)
    \/ LoadSuccess(MaxDuration)
    \/ \E m \in Modes : HandleModeChange(m)
    \/ Tick

SpecVisuals == Init /\ [][NextVisuals]_vars

TypeOK ==
    /\ audioBuffer \in {0} \cup Durations
    /\ isPlaying \in BOOLEAN
    /\ startTime \in 0..(MaxClock + MaxDuration)
    /\ startedAt \in 0..MaxClock
    /\ sourceNode.st \in {"null", "idle", "live"}
    /\ Len(stale) <= MaxNodes
    /\ clock \in 0..MaxClock
    /\ Len(timers) <= MaxTimers
    /\ loads \in 0..MaxLoads
    /\ rafPending \in 0..1
    /\ now \in NowStep..(MaxNow * NowStep)
    /\ lastFrameTime \in NowStep..now
    /\ timeSinceLastBeat \in 0..(now - NowStep)
    /\ Len(energyHistory) <= beatHistorySize
    /\ bufferLength \in 0..MaxBins
    /\ Len(analyser) = bufferLength
    /\ audioReady \in BOOLEAN
    /\ endReport \in {"none", "natural", "stopped"}
    /\ lastSeek \in {-1} \cup 0..MaxDuration
    /\ currentVisMode \in Modes
    /\ visElements \subseteq UNION {KeyOf(m) : m \in Modes}
    /\ \A k \in Kinds : scene[k] \in 0..(MaxCopies * SnowflakeTypes)
    /\ inited \subseteq Handled
    /\ visRet \in {"none", "true", "false"}
    /\ features.kind \in {"none", "default", "computed"}
    /\ Len(beatTimes) <= 2

\* ================================================================ claims
\* steps, named after the operation that takes them
StartStep(offset, ok) == StartPlayback(offset, ok)
SeekStep(time) == SetStartTime(time, TRUE)
NaturalEndStep == NaturallyEnded /\ \E n \in 0..MaxNodes : OnEnded(n)

\* C1: with a buffer loaded, getCurrentTime() lies in [0, getDuration()]
\* in every state reached by startPlayback, stopPlayback, setStartTime,
\* clock advance and the completion callback, also between the end of the
\* track and the run of the callback
C1_OffsetWithinDuration ==
    audioBuffer # 0 => (0 <= GetCurrentTime /\ GetCurrentTime <= GetDuration)

\* C2 as stated: in a run of play, pause, clock advance and natural
\* completion without a seek, no step makes getCurrentTime() smaller
C2_NeverBackward ==
    [][~dirty' => GetCurrentTime' >= GetCurrentTime]_vars

\* C2 amended: in a run without a seek, getCurrentTime() never falls below
\* the smaller of its previous value and the duration, except in the
\* completion callback of a track that played to its end, which resets
\* the offset to 0
C2_BackwardOnlyAtEnd ==
    [][~dirty'
         => IF NaturalEndStep
            THEN GetCurrentTime' = 0
            ELSE GetCurrentTime' >= Min(GetCurrentTime, GetDuration)]_vars

C2_Witness ==
    /\ ~dirty /\ firstOffset = 0 /\ ended
    /\ ~isPlaying /\ startTime = 0 /\ sourceNode.st = "null"
    /\ clock >= startedAt + audioBuffer

\* C3: while paused with a buffer loaded, setStartTime(t) with a numeric t
\* returns true, makes getCurrentTime() equal min(max(t, 0), duration) and
\* leaves isPlaying, startedAt and the source node alone
C3_PausedSeek ==
    [][\A t \in Offsets :
          (SeekStep(t) /\ ~isPlaying /\ audioBuffer # 0)
             => /\ ret' = "true"
                /\ GetCurrentTime' = Min(Max(t, 0), GetDuration)
                /\ UNCHANGED <<isPlaying, startedAt, sourceNode, stale>>]_vars

C3_Witness ==
    /\ ret = "true" /\ ~isPlaying /\ audioBuffer # 0
    /\ startTime = audioBuffer /\ startedAt > 0 /\ sourceNode.st = "idle"

\* C4: after handleSeek(t) handled while playing, every frame reads
\* t plus the clock time elapsed since the seek, also a frame that runs
\* before the deferred restart
C4_SeekShownAtOnce ==
    (shown # -1 /\ seekRec.on) => shown = seekRec.base + clock

\* C5: pause and resume are continuous: neither stopPlayback() nor a
\* following startPlayback(getCurrentTime()) changes the value of
\* getCurrentTime() at that clock instant
C5_PauseResumeContinuous ==
    [][(StopPlayback \/ (~isPlaying /\ StartStep(GetCurrentTime, TRUE)))
         => GetCurrentTime' = GetCurrentTime]_vars

\* C6: getCurrentTime() is startTime while isPlaying is false and
\* audioContext.currentTime - startedAt + startTime while it is true, so a
\* paused offset stays where it is until a play, seek or reset
C6_OffsetFormula ==
    [][/\ IF isPlaying'
          THEN GetCurrentTime' = clock' - startedAt' + startTime'
          ELSE GetCurrentTime' = startTime'
       /\ (/\ ~isPlaying
           /\ ~ResetAudio
           /\ \A o \in Offsets :
                 /\ \A ok \in BOOLEAN : ~StartStep(o, ok)
                 /\ ~SeekStep(o))
            => GetCurrentTime' = GetCurrentTime]_vars

C6_Witness ==
    /\ ~isPlaying /\ audioBuffer # 0 /\ ret = "none"
    /\ startTime > 0 /\ clock - startedAt + startTime > startTime

\* C7: over pause/resume cycles without a seek and before the end of the
\* track, getCurrentTime() is the offset of the first play plus the clock
\* time spent playing
C7_NoDrift ==
    (audioBuffer # 0 /\ ~dirty /\ ~ended /\ firstOffset # -1)
        => GetCurrentTime = firstOffset + played

C7_Witness ==
    /\ ~dirty /\ ~ended /\ firstOffset # -1
    /\ cycles >= 2 /\ isPlaying /\ played >= 2

\* C8: a startPlayback(offset) that starts its node sets startTime to the
\* clamped offset, startedAt to the clock and isPlaying to true, starts
\* the node at the clamped offset and returns true
C8_StartSucceeds ==
    [][\A o \in Offsets :
          (StartStep(o, TRUE) /\ audioBuffer # 0)
             => LET v == Min(Max(o, 0), audioBuffer)
                IN  /\ startTime' = v
                    /\ startedAt' = clock
                    /\ isPlaying'
                    /\ sourceNode' =
                         [st |-> "live", endAt |-> clock + audioBuffer - v]
                    /\ ret' = "true"]_vars

C8_Witness ==
    /\ ret = "true" /\ isPlaying /\ audioBuffer # 0
    /\ startTime = audioBuffer /\ startedAt = clock /\ clock > 0
    /\ sourceNode = [st |-> "live", endAt |-> clock]

\* C9: a startPlayback whose node refuses to start returns false and
\* leaves startTime, startedAt, isPlaying and the source node as they were
C9_FailedStartNoChange ==
    [][\A o \in Offsets :
          (StartStep(o, FALSE) /\ audioBuffer # 0)
             => /\ ret' = "false"
                /\ UNCHANGED <<startTime, startedAt, isPlaying,
                               sourceNode>>]_vars

\* C10: without a buffer, startPlayback, stopPlayback and setStartTime
\* leave isPlaying, startTime and startedAt alone and return a failure
\* indicator
C10_NoBufferNoOp ==
    [][(/\ audioBuffer = 0
        /\ \/ StopPlayback
           \/ \E o \in Offsets :
                 \/ \E ok \in BOOLEAN : StartStep(o, ok)
                 \/ \E isNum \in BOOLEAN : SetStartTime(o, isNum))
         => /\ UNCHANGED <<isPlaying, startTime, startedAt>>
            /\ ret' = "false"]_vars

LoadErrorStep == LoadError
LoadSuccessStep == \E d \in Durations : LoadSuccess(d)

\* C11: after a failed file load the core has no buffer: getDuration() is
\* 0, also when an earlier file had been loaded
C11_LoadErrorNoBuffer ==
    [][LoadErrorStep => (audioBuffer' = 0 /\ GetDuration' = 0)]_vars

\* C12: from the moment a new buffer is installed, isPlaying is false and
\* getCurrentTime() is 0, whatever the previous track's offset was
C12_LoadDiscardsPlayback ==
    [][LoadSuccessStep => (~isPlaying' /\ GetCurrentTime' = 0)]_vars

ResetStep == ResetAudio
DecodedStep == \E d \in Durations : Decoded(d)

\* C13: energyHistory is empty after resetAudio and after a new buffer is
\* decoded: no energy pushed during an earlier track is left
C13_HistoryClearedOnReset ==
    [][(ResetStep \/ DecodedStep) => energyHistory' = <<>>]_vars

\* C14: in every state a frame can run in, isPlaying implies that a buffer
\* is loaded and that the module holds a source node
C14_PlayingHasBufferAndNode ==
    isPlaying => (audioBuffer # 0 /\ sourceNode.st # "null")

C14_Witness ==
    /\ isPlaying /\ sourceNode.st = "idle" /\ stale # <<>>
    /\ audioBuffer # 0

\* C15: two beats that follow each other are more than beatCooldown ms of
\* wall clock apart, whatever pauses, resumes and seeks lie between them
C15_BeatsApart ==
    Len(beatTimes) = 2 => beatTimes[2] - beatTimes[1] > beatCooldown

C15_Witness ==
    /\ Len(beatTimes) = 2 /\ beatTimes[2] = now
    /\ features.kind = "computed" /\ features.isBeat
    /\ dirty

CalcStep == CalculateAudioFeatures

\* the energy of the analyser's data and the mean of energyHistory, both
\* multiplied by bufferLength * Len(energyHistory)
EnergyNow == Len(energyHistory) * CurrentEnergy(analyser)
EnergyMean == SumSeq(energyHistory)
BassPctNow == NormalizedPct(BandAverage(analyser, 0, BassEnd(bufferLength)))
SinceBeatNow == timeSinceLastBeat + (now - lastFrameTime)

C18_HistoryKeepsLast ==
    [][CalcStep
         => LET h == Append(energyHistory, CurrentEnergy(analyser))
                k == IF Len(h) < beatHistorySize THEN Len(h)
                     ELSE beatHistorySize
            IN  /\ energyHistory' = SubSeq(h, Len(h) - k + 1, Len(h))
                /\ Len(energyHistory') <= beatHistorySize]_vars

C18_Witness ==
    /\ Len(energyHistory) = beatHistorySize
    /\ energyHistory[1] # energyHistory[beatHistorySize]
    /\ features.kind = "computed" /\ features.isBeat
    /\ Len(beatTimes) = 1

\* C19: on a snapshot of zero bins calculateAudioFeatures returns volume,
\* bass, mid and treble 0 and no beat, whatever energyHistory and
\* timeSinceLastBeat are
C19_SilenceIsZero ==
    [][(CalcStep /\ analyser = Zeros(bufferLength))
         => /\ features'.volume.sum = 0
            /\ features'.bass.sum = 0
            /\ features'.mid.sum = 0
            /\ features'.treble.sum = 0
            /\ ~features'.isBeat]_vars

C19_Witness ==
    /\ features.kind = "computed" /\ analyser = Silent
    /\ energyHistory = <<0, 0>>
    /\ timeSinceLastBeat > beatCooldown

\* C20: for every analyser size and every snapshot, each band average
\* calculateAudioFeatures computes lies in [0, 255], so each normalized
\* feature lies in [0, 1]
C20_BandsInRange ==
    features.kind = "computed"
        => \A band \in {features.volume, features.bass, features.mid,
                        features.treble} :
              0 <= band.sum /\ band.sum <= MaxLevel * band.count

C20_Witness ==
    /\ features.kind = "computed"
    /\ bufferLength >= 10
    /\ features.bass = [sum |-> MaxLevel, count |-> 1]
    /\ features.volume.sum = MaxLevel * bufferLength

\* C21: for every bin count N >= 1, with bassEnd = floor(0.1 N) and midEnd =
\* floor(0.5 N), every bin is summed into the volume and into exactly one
\* of bass [0, bassEnd), mid [bassEnd, midEnd) and treble [midEnd, N), so
\* the three band sums add up to the volume sum; each band sum is divided
\* by its bin count, by 1 when the band is empty, and an empty band is 0
C21_BandsPartition ==
    features.kind = "computed"
        => LET N == bufferLength
               bassEnd == N \div 10
               midEnd == N \div 2
               Full(a, b) ==
                   MaxLevel * Cardinality({i \in (a + 1)..b :
                                              analyser[i] = MaxLevel})
               Divisor(k) == IF k = 0 THEN 1 ELSE k
           IN  /\ features.volume = [sum |-> Full(0, N), count |-> N]
               /\ features.bass =
                     [sum |-> Full(0, bassEnd), count |-> Divisor(bassEnd)]
               /\ features.mid =
                     [sum |-> Full(bassEnd, midEnd),
                      count |-> Divisor(midEnd - bassEnd)]
               /\ features.treble =
                     [sum |-> Full(midEnd, N), count |-> Divisor(N - midEnd)]
               /\ features.bass.sum + features.mid.sum + features.treble.sum
                     = features.volume.sum
               /\ \A band \in {features.volume, features.bass, features.mid,
                                features.treble} : band.count >= 1
               /\ (bassEnd = 0 => features.bass.sum = 0)
               /\ (midEnd = bassEnd => features.mid.sum = 0)

C21_Witness ==
    /\ features.kind = "computed"
    /\ bufferLength = 9
    /\ analyser[1] = MaxLevel /\ analyser[9] = MaxLevel
    /\ features.bass = [sum |-> 0, count |-> 1]
    /\ features.mid.sum > 0 /\ features.treble.sum > 0

\* calculateAudioFeatures called without an analyser or its arrays, with
\* reads that raise, or on an analyser without bins
DegenerateStep ==
    \E readOk \in BOOLEAN :
        /\ CalculateAudioFeaturesRead(readOk)
        /\ (~audioReady \/ ~readOk \/ bufferLength = 0)

\* C22: when the analyser or its arrays are missing, when reading the
\* snapshot raises, or when the bin count is 0, calculateAudioFeatures
\* returns the default record (volume, bass, mid and treble 0, isBeat
\* false, raw arrays of positive length) and leaves energyHistory,
\* timeSinceLastBeat and lastFrameTime as they were
C22_DegenerateIsDefault ==
    [][DegenerateStep
         => /\ features'.kind = "default"
            /\ features'.volume.sum = 0 /\ features'.bass.sum = 0
            /\ features'.mid.sum = 0 /\ features'.treble.sum = 0
            /\ ~features'.isBeat
            /\ features'.rawLength > 0
            /\ UNCHANGED <<energyHistory, timeSinceLastBeat,
                           lastFrameTime>>]_vars

C22_Witness ==
    /\ features.kind = "default" /\ features.rawLength = MaxBins
    /\ audioReady /\ bufferLength > 0
    /\ energyHistory # <<>> /\ timeSinceLastBeat > 0
    /\ lastFrameTime < now

ModeChangeStep == \E m \in Modes : HandleModeChange(m)

\* C23: every mode of visModeSelect can be activated: switchVisualMode
\* leaves the elements of the mode initialized, and every frame that
\* follows finds updateVisualization returning true
C23_EveryModeActivates ==
    [][/\ ModeChangeStep
           => (visElements' # {} /\ currentVisMode' \in inited')
       /\ Tick => visRet' = "true"]_vars

\* C24: after switchVisualMode from a mode to a different one, nothing
\* the init function of the old mode added is left in the scene
C24_SwitchRemovesAll ==
    [][\A m \in Modes \ {currentVisMode} :
          HandleModeChange(m)
             => \A k \in Kinds :
                   Created(currentVisMode)[k] > 0 => scene'[k] = 0]_vars

\* the scene holds no more than one instance of what the init function of
\* the current mode makes, and nothing of another mode
OneInstance ==
    \A k \in Kinds : scene[k] <= Created(currentVisMode)[k]

\* C30: a successful file load leaves the scene with at most one instance
\* of the current mode's objects: loading a second file adds no second
\* copy of the visuals
C30_LoadAddsNoCopy ==
    [][(LoadSuccessStep /\ OneInstance) => OneInstance']_vars

EndedStep == \E n \in 0..MaxNodes : OnEnded(n)

\* the source nodes whose onended callback can still run
Callbacks == Len(stale) + (IF sourceNode.st = "live" THEN 1 ELSE 0)

\* C25: the completion callback sets isPlaying to false; it resets
\* startTime to 0 and reports natural completion exactly when isPlaying
\* was still true and audioContext.currentTime - startedAt + startTime >=
\* duration - 0.1, and otherwise leaves startTime alone; stopPlayback
\* detaches the callback of the node it stops, so that node never calls
\* back, and a callback that runs after the stop resets and reports
\* nothing
C25_ResetOnlyAtNaturalEnd ==
    [][/\ EndedStep
           => /\ ~isPlaying'
              /\ IF isPlaying /\ clock - startedAt + startTime
                                    >= audioBuffer - NaturalEndEps
                 THEN startTime' = 0 /\ endReport' = "natural"
                 ELSE startTime' = startTime /\ endReport' = "stopped"
       /\ StopPlayback
           => /\ endReport' = "none"
              /\ Callbacks' = Len(stale)
              /\ (startTime' = 0 => GetCurrentTime = 0)]_vars

C25_Witness ==
    /\ endReport = "stopped" /\ ~isPlaying
    /\ startTime > 0 /\ startTime >= audioBuffer - NaturalEndEps
    /\ clock - startedAt + startTime >= audioBuffer - NaturalEndEps

\* C26: a frame that runs while isPlaying is false does not sample the
\* analyser: the renderer gets the default record, energyHistory and
\* timeSinceLastBeat stay as they are and only lastFrameTime is updated;
\* a frame that runs while playing reads the playback position, runs
\* calculateAudioFeatures once and hands its record to updateVisualization
C26_FrameFeatures ==
    [][Tick
         => /\ shown' = GetCurrentTime
            /\ visRet' # "none"
            /\ lastFrameTime' = now
            /\ IF ~isPlaying
               THEN /\ features'.kind = "default"
                    /\ features'.volume.sum = 0 /\ features'.bass.sum = 0
                    /\ features'.mid.sum = 0 /\ features'.treble.sum = 0
                    /\ ~features'.isBeat
                    /\ UNCHANGED <<energyHistory, timeSinceLastBeat>>
               ELSE /\ features'.kind = "computed"
                    /\ Len(energyHistory')
                         = Min(Len(energyHistory) + 1, beatHistorySize)
                    /\ energyHistory'[Len(energyHistory')]
                         = CurrentEnergy(analyser)
                    /\ \A i \in 1..(Len(energyHistory') - 1) :
                          energyHistory'[i]
                            = energyHistory[i + Len(energyHistory) + 1
                                               - Len(energyHistory')]]_vars

C26_Witness ==
    /\ shown # -1 /\ ~isPlaying /\ features.kind = "default"
    /\ energyHistory # <<>> /\ timeSinceLastBeat > 0
    /\ lastFrameTime = now /\ now > NowStep
    /\ analyser # Zeros(bufferLength)

RestartStep == \E ok \in BOOLEAN : RestartTimer(ok)

\* C27: once the last deferred restart of handleSeek has run, playback is
\* at the most recently requested seek target: the restart of an earlier
\* seek does not override a later seek
C27_LatestSeekWins ==
    [][(RestartStep /\ timers' = <<>>) => startTime' = lastSeek]_vars

\* the source nodes that are started and have not rendered their buffer
\* to its end
Rendering ==
    Cardinality({i \in DOMAIN stale : stale[i] > clock})
      + (IF sourceNode.st = "live" /\ sourceNode.endAt > clock
         THEN 1 ELSE 0)

\* C28: at most one source node is started and neither stopped nor ended,
\* and the completion callback of a node that startPlayback has replaced
\* leaves isPlaying, startTime and the reference to the current node alone
C28_OnlyCurrentNodeActs ==
    [][/\ Rendering' <= 1
       /\ (\E n \in 1..MaxNodes : OnEnded(n))
            => UNCHANGED <<isPlaying, startTime, sourceNode>>]_vars

\* C29: at most one animate callback is pending at any time, and exactly
\* one once the loop has started, after any sequence of file loads,
\* play/pause presses and seeks
C29_OneAnimationLoop ==
    /\ rafPending <= 1
    /\ animationFrameId <=> rafPending = 1

C29_Witness ==
    /\ animationFrameId /\ rafPending = 1 /\ shown # -1
    /\ isPlaying /\ dirty /\ scene["particles"] = 2

====
